---- MODULE Spec2Model ----
(***************************************************************************)
(* Model of level2-send-eth-transfer/src/main.rs: the main() driver and    *)
(* the send_eth_transfer pipeline (amount parsing, nonce, gas price with   *)
(* premium, gas limit with fallback and buffer, balance check, signing and *)
(* broadcast, confirmation wait) against a JSON-RPC endpoint whose replies *)
(* are nondeterministic.                                                   *)
(*                                                                         *)
(* U256 is an unsigned 256-bit integer whose +, - and * panic on overflow. *)
(* TLC integers are 32 bits wide, so the width is scaled: U256Max stands   *)
(* for 2^256 - 1 and WeiPerEther for 10^18.  No product or sum is ever     *)
(* evaluated unless it is known to fit.                                    *)
(***************************************************************************)
EXTENDS Integers, Sequences, FiniteSets, TLC

\* ---------------------------------------------------------------- bounds
U256Max == 4194303
WeiPerEther == 100
MaxPolls == 2

\* ------------------------------------------------------ program constants
ChainId == 421614
BaseTransferGas == 21000
PremiumPercent == 110
BufferPercent == 120

Unset == -1
Failed == -2
Overflowed == -3

\* ----------------------------------------------------------- input domains
\* Address strings handed to validate_address: one that does not parse, the
\* all-zero address, and two ordinary addresses.
AddressStrings == {"zz", "0x00", "0x6F", "0xF1"}
ZeroAddress == 0

\* Replies of the endpoint (Failed = the call returned an error).
GasPriceReplies == {Failed, 0, 1, 19, 91, U256Max \div PremiumPercent,
                    (U256Max \div PremiumPercent) + 1}
EstimateReplies == {Failed, 1, 9, U256Max \div BufferPercent,
                    (U256Max \div BufferPercent) + 1}
NonceReplies == {Failed, 0, 7}
BalanceReplies == {Failed, 0, 100, 149, 150, U256Max}
Amounts == {0, 1, 50, U256Max}
Hashes == {"h1"}
\* Outcomes of awaiting the pending transaction: an error, no receipt
\* (transaction dropped), or a receipt whose status is 1, 0 or absent.
ReceiptReplies == {"error", "none", "status1", "status0", "nostatus"}

\* The amount string, abstracted by what the three parsers make of it:
\* is_empty(), parse::<f64>() and parse_units(.., "ether").
AmountInputs ==
    {[empty |-> TRUE, f64ok |-> FALSE, parsed |-> Failed]}
    \cup [empty : {FALSE}, f64ok : BOOLEAN, parsed : Amounts \cup {Failed}]

\* ------------------------------------------------------- U256 arithmetic
\* A multiplication that never reports overflow (wrapping arithmetic).
MulFits_wrapping(a, b) == TRUE

\* uint's Mul/Add/Sub panic on overflow; these say when the result fits.
MulFits(a, b) == b = 0 \/ a <= U256Max \div b
AddFits(a, b) == a <= U256Max - b

\* Address::from_str: Failed for a malformed string, else the address.
AddressFromStr(s) ==
    CASE s = "0x00" -> ZeroAddress
      [] s = "0x6F" -> 111
      [] s = "0xF1" -> 241
      [] OTHER -> Failed

\* validate_address without the zero-address test of lines 21-23.
validate_address_nozero(s) == AddressFromStr(s)

\* validate_address: Failed for Err, else the address.
validate_address(s) ==
    LET address == AddressFromStr(s)
    IN IF address = Failed THEN Failed
       ELSE IF address = ZeroAddress THEN Failed
       ELSE address

\* format_units(x, "ether"): the decimal string "q.r", as <<q, r>>.
format_units(x) == <<x \div WeiPerEther, x % WeiPerEther>>
\* The amount in wei that a formatted string denotes.
UnitsValue(s) == s[1] * WeiPerEther + s[2]

\* base_gas_price * 110 / 100 (line 82) when the product fits.
PremiumOf(base_gas_price) == (base_gas_price * PremiumPercent) \div 100
\* gas_limit * 120 / 100 (line 109) when the product fits.
BufferOf(gas_limit) == (gas_limit * BufferPercent) \div 100

\* unwrap_or_else(|_| U256::from(21000)) (line 106).
EstimateOrFallback(reply) == IF reply = Failed THEN BaseTransferGas ELSE reply

\* get_gas_price_with_premium that swallows a failed query (a default
\* price of zero instead of the ? of line 79).
get_gas_price_with_premium_default(reply) ==
    IF reply = Failed THEN 0
    ELSE IF ~MulFits(reply, PremiumPercent) THEN Overflowed
    ELSE PremiumOf(reply)

\* get_gas_price_with_premium, given the endpoint's reply to get_gas_price:
\* Failed for Err, Overflowed for a panic, else the price with premium.
get_gas_price_with_premium(reply) ==
    IF reply = Failed THEN Failed
    ELSE IF ~MulFits(reply, PremiumPercent) THEN Overflowed
    ELSE PremiumOf(reply)

\* estimate_gas_limit, given the endpoint's reply to estimate_gas:
\* Overflowed for a panic, else the limit with buffer.  It has no Err.
estimate_gas_limit(reply) ==
    LET gas_limit_0 == EstimateOrFallback(reply)
    IN IF ~MulFits(gas_limit_0, BufferPercent) THEN Overflowed
       ELSE BufferOf(gas_limit_0)

\* Error contexts attached by .context(..) / eyre!(..).
AmountContext == "invalid amount format"
NonceContext == "get nonce failed"
GasPriceContext == "get gas price failed"
\* Line 163 uses a bare ?: the provider's error, with no context added.
ProviderError == "provider error"
InsufficientContext == "insufficient balance"
SendContext == "send transaction failed"
\* The wait error given the context of the broadcast error.
WaitContext_same == "send transaction failed"
WaitContext == "wait for confirmation failed"

NoResult == [kind |-> "None", ctx |-> "", hash |-> "", detail |-> <<>>]
Ok(h) == [kind |-> "Ok", ctx |-> "", hash |-> h, detail |-> <<>>]
Err(c) == [kind |-> "Err", ctx |-> c, hash |-> "", detail |-> <<>>]

\* The error of lines 167-174 with the shortfall not reduced by the balance.
InsufficientFundsError_total(bal, total) ==
    [kind |-> "Err", ctx |-> InsufficientContext, hash |-> "",
     detail |-> <<format_units(bal), format_units(total),
                  format_units(total)>>]

\* The eyre! error of lines 167-174: balance, required amount, shortfall.
InsufficientFundsError(bal, total) ==
    [kind |-> "Err", ctx |-> InsufficientContext, hash |-> "",
     detail |-> <<format_units(bal), format_units(total),
                  format_units(total - bal)>>]

\* The balance test with the comparison reversed.
Insufficient_gt(bal, total) == bal > total

\* The balance test with <= in place of <.
Insufficient_le(bal, total) == bal <= total

\* balance < total_cost (line 166).
Insufficient(bal, total) == bal < total

NoTx == [to |-> Unset, value |-> Unset, gas_price |-> Unset, gas |-> Unset,
         nonce |-> Unset, chain_id |-> Unset]
\* A request signed with the count read plus one.
BuildTx_nextnonce(to, value, gp, gl, n) ==
    [to |-> to, value |-> value, gas_price |-> gp, gas |-> gl,
     nonce |-> n + 1, chain_id |-> ChainId]

\* A request that carries the gas limit where the gas price belongs.
BuildTx_swapped(to, value, gp, gl, n) ==
    [to |-> to, value |-> value, gas_price |-> gl, gas |-> gp,
     nonce |-> n, chain_id |-> ChainId]

\* TransactionRequest of lines 180-185, filled with the signer's chain id.
BuildTx(to, value, gp, gl, n) ==
    [to |-> to, value |-> value, gas_price |-> gp, gas |-> gl,
     nonce |-> n, chain_id |-> ChainId]

\* Two transfers started from the same account.
Flows == {1, 2}
NoFlow == [pc |-> "get_nonce", nonce |-> Unset, gas_price |-> Unset,
           gas_limit |-> Unset, sent |-> NoTx, result |-> NoResult]
\* The account on the endpoint: its transaction count, the transactions
\* pending in the pool and those included, each as <<flow, nonce>>.
NoChain == [count |-> 0, pool |-> {}, included |-> {}]

VARIABLES pc, to_input, amount_input, to_address, amount_wei, nonce,
          gas_price, gas_limit, estimated_fee, balance, total_cost,
          calls, sent, tx_hash, receipt, polls, status_line, result,
          report, exit,
          flows, chain

vars == <<pc, to_input, amount_input, to_address, amount_wei, nonce,
          gas_price, gas_limit, estimated_fee, balance, total_cost,
          calls, sent, tx_hash, receipt, polls, status_line, result,
          report, exit, flows, chain>>

\* State of the two concurrent transfers and of the account on the endpoint;
\* a single transfer leaves it alone.
conc == <<flows, chain>>
inputs == <<to_input, amount_input, conc>>
locals == <<to_address, amount_wei, nonce, gas_price, gas_limit,
            estimated_fee, balance, total_cost>>
submit == <<sent, tx_hash, receipt, polls, status_line>>

Init ==
    /\ pc = "load_wallet"
    /\ to_input \in AddressStrings
    /\ amount_input \in AmountInputs
    /\ to_address = Unset
    /\ amount_wei = Unset
    /\ nonce = Unset
    /\ gas_price = Unset
    /\ gas_limit = Unset
    /\ estimated_fee = Unset
    /\ balance = Unset
    /\ total_cost = Unset
    /\ calls = <<>>
    /\ sent = NoTx
    /\ tx_hash = ""
    /\ receipt = "unset"
    /\ polls = 0
    /\ status_line = ""
    /\ result = NoResult
    /\ report = "none"
    /\ exit = "running"
    /\ flows = [f \in Flows |-> NoFlow]
    /\ chain = NoChain

\* One request to the endpoint: the operation, the function that issued it
\* and the reply (Failed for an error; 0 where the value is not used).
Call(op, by, reply) == [op |-> op, by |-> by, reply |-> reply]
Issue(op, by, reply) == calls' = Append(calls, Call(op, by, reply))

\* main returns: how is "ok" (Ok(())) or "err" (an Err through ?).
MainReturns(how) ==
    /\ pc' = "exited"
    /\ exit' = how

\* A U256 operation overflowed: the thread panics and the process aborts.
Panics ==
    /\ pc' = "exited"
    /\ exit' = "panic"

\* A return that re-enters the broadcast when the broadcast was rejected.
Returns_retry(r) ==
    IF r.ctx = SendContext
    THEN pc' = "send" /\ UNCHANGED <<result, exit>>
    ELSE /\ result' = r
         /\ pc' = "report"
         /\ UNCHANGED exit

\* send_eth_transfer returns r to main.
Returns(r) ==
    /\ result' = r
    /\ pc' = "report"
    /\ UNCHANGED exit

\* main, lines 225-241: load_wallet_from_env.
LoadWallet ==
    /\ pc = "load_wallet"
    /\ \E ok \in BOOLEAN :
          IF ok THEN pc' = "validate_address" /\ UNCHANGED exit
          ELSE MainReturns("ok")
    /\ UNCHANGED <<inputs, locals, calls, submit, result, report>>

\* main, lines 243-258: validate the receiver address.
ValidateAddress ==
    /\ pc = "validate_address"
    /\ LET a == validate_address(to_input)
       IN IF a = Failed
          THEN MainReturns("ok") /\ UNCHANGED to_address
          ELSE pc' = "check_amount" /\ to_address' = a /\ UNCHANGED exit
    /\ UNCHANGED <<inputs, amount_wei, nonce, gas_price, gas_limit,
                   estimated_fee, balance, total_cost, calls, submit,
                   result, report>>

\* main, lines 260-274: the amount must be non-empty and parse as f64.
CheckAmount ==
    /\ pc = "check_amount"
    /\ IF amount_input.empty \/ ~amount_input.f64ok
       THEN MainReturns("ok")
       ELSE pc' = "main_balance_sender" /\ UNCHANGED exit
    /\ UNCHANGED <<inputs, locals, calls, submit, result, report>>

\* main, lines 276-282: get_balance_eth of sender, then of receiver.
MainBalance ==
    /\ pc \in {"main_balance_sender", "main_balance_receiver"}
    /\ \E reply \in {Failed, 0} :
          /\ Issue("get_balance", "main", reply)
          /\ IF reply = Failed THEN MainReturns("err")
             ELSE /\ pc' = IF pc = "main_balance_sender"
                           THEN "main_balance_receiver" ELSE "parse_amount"
                  /\ UNCHANGED exit
    /\ UNCHANGED <<inputs, locals, submit, result, report>>

\* send_eth_transfer, lines 120-132: client set-up and parse_units.
ParseAmount ==
    /\ pc = "parse_amount"
    /\ IF amount_input.parsed = Failed
       THEN Returns(Err(AmountContext)) /\ UNCHANGED amount_wei
       ELSE /\ amount_wei' = amount_input.parsed
            /\ pc' = "get_nonce"
            /\ UNCHANGED <<result, exit>>
    /\ UNCHANGED <<inputs, to_address, nonce, gas_price, gas_limit,
                   estimated_fee, balance, total_cost, calls, submit, report>>

\* send_eth_transfer, lines 134-137: get_transaction_count.
GetNonce ==
    /\ pc = "get_nonce"
    /\ \E reply \in NonceReplies :
          /\ Issue("get_transaction_count", "send_eth_transfer", reply)
          /\ IF reply = Failed
             THEN Returns(Err(NonceContext)) /\ UNCHANGED nonce
             ELSE /\ nonce' = reply
                  /\ pc' = "get_gas_price"
                  /\ UNCHANGED <<result, exit>>
    /\ UNCHANGED <<inputs, to_address, amount_wei, gas_price, gas_limit,
                   estimated_fee, balance, total_cost, submit, report>>

\* send_eth_transfer, line 140: get_gas_price_with_premium (lines 74-85).
GetGasPrice ==
    /\ pc = "get_gas_price"
    /\ \E reply \in GasPriceReplies :
          /\ Issue("get_gas_price", "send_eth_transfer", reply)
          /\ LET p == get_gas_price_with_premium(reply)
             IN CASE p = Failed ->
                       Returns(Err(GasPriceContext)) /\ UNCHANGED gas_price
                  [] p = Overflowed ->
                       Panics /\ UNCHANGED <<gas_price, result>>
                  [] OTHER ->
                       /\ gas_price' = p
                       /\ pc' = "estimate_gas"
                       /\ UNCHANGED <<result, exit>>
    /\ UNCHANGED <<inputs, to_address, amount_wei, nonce, gas_limit,
                   estimated_fee, balance, total_cost, submit, report>>

\* send_eth_transfer, lines 142-160: estimate_gas_limit (lines 88-112),
\* then estimated_fee = gas_price * gas_limit.
EstimateGas ==
    /\ pc = "estimate_gas"
    /\ \E reply \in EstimateReplies :
          /\ Issue("estimate_gas", "send_eth_transfer", reply)
          /\ LET gl == estimate_gas_limit(reply)
             IN CASE gl = Overflowed ->
                       Panics /\ UNCHANGED <<gas_limit, estimated_fee>>
                  [] gl # Overflowed /\ ~MulFits(gas_price, gl) ->
                       Panics /\ gas_limit' = gl /\ UNCHANGED estimated_fee
                  [] OTHER ->
                       /\ gas_limit' = gl
                       /\ estimated_fee' = gas_price * gl
                       /\ pc' = "get_balance"
                       /\ UNCHANGED exit
    /\ UNCHANGED <<inputs, to_address, amount_wei, nonce, gas_price,
                   balance, total_cost, submit, result, report>>

\* send_eth_transfer, lines 162-175: balance query and sufficiency check.
GetBalance ==
    /\ pc = "get_balance"
    /\ \E reply \in BalanceReplies :
          /\ Issue("get_balance", "send_eth_transfer", reply)
          /\ CASE reply = Failed ->
                    /\ Returns(Err(ProviderError))
                    /\ UNCHANGED <<balance, total_cost>>
               [] reply # Failed /\ ~AddFits(amount_wei, estimated_fee) ->
                    /\ Panics
                    /\ balance' = reply
                    /\ UNCHANGED <<total_cost, result>>
               [] OTHER ->
                    /\ balance' = reply
                    /\ total_cost' = amount_wei + estimated_fee
                    /\ IF Insufficient(reply, amount_wei + estimated_fee)
                       THEN Returns(InsufficientFundsError(reply,
                                        amount_wei + estimated_fee))
                       ELSE pc' = "send" /\ UNCHANGED <<result, exit>>
    /\ UNCHANGED <<inputs, to_address, amount_wei, nonce, gas_price,
                   gas_limit, estimated_fee, submit, report>>

\* send_eth_transfer, lines 177-191: build, sign and broadcast.
SendTransaction ==
    /\ pc = "send"
    /\ sent' = BuildTx(to_address, amount_wei, gas_price, gas_limit, nonce)
    /\ \/ /\ Issue("send_raw_transaction", "send_eth_transfer", Failed)
          /\ Returns(Err(SendContext))
          /\ UNCHANGED tx_hash
       \/ \E h \in Hashes :
             /\ Issue("send_raw_transaction", "send_eth_transfer", 0)
             /\ tx_hash' = h
             /\ pc' = "await_receipt"
             /\ UNCHANGED <<result, exit>>
    /\ UNCHANGED <<inputs, locals, receipt, polls, status_line, report>>

\* A wait that gives up with an error after MaxPolls empty polls.
ReceiptPending_timeout ==
    /\ pc = "await_receipt"
    /\ polls < MaxPolls
    /\ polls' = polls + 1
    /\ Issue("get_transaction_receipt", "send_eth_transfer", 0)
    /\ IF polls + 1 = MaxPolls
       THEN Returns(Err(WaitContext))
       ELSE UNCHANGED <<pc, result, exit>>
    /\ UNCHANGED <<inputs, locals, sent, tx_hash, receipt, status_line,
                   report>>

\* The pending transaction polls the endpoint and finds no receipt yet.
ReceiptPending ==
    /\ pc = "await_receipt"
    /\ polls < MaxPolls
    /\ polls' = polls + 1
    /\ Issue("get_transaction_receipt", "send_eth_transfer", 0)
    /\ UNCHANGED <<pc, inputs, locals, sent, tx_hash, receipt, status_line,
                   result, report, exit>>

\* The status text printed at lines 204-210.
StatusText(r) ==
    CASE r = "status1" -> "success"
      [] r \in {"status0", "nostatus"} -> "failure"
      [] OTHER -> "no receipt"

\* send_eth_transfer, lines 193-217: the wait ends.
AwaitReceipt ==
    /\ pc = "await_receipt"
    /\ \E r \in ReceiptReplies :
          /\ receipt' = r
          /\ IF r = "error"
             THEN /\ Issue("get_transaction_receipt", "send_eth_transfer",
                           Failed)
                  /\ Returns(Err(WaitContext))
                  /\ UNCHANGED status_line
             ELSE /\ Issue("get_transaction_receipt", "send_eth_transfer", 0)
                  /\ Returns(Ok(tx_hash))
                  /\ status_line' = StatusText(r)
    /\ UNCHANGED <<inputs, locals, sent, tx_hash, polls, report>>

\* main, lines 286-302: report the result of send_eth_transfer.
MainReport ==
    /\ pc = "report"
    /\ IF result.kind = "Ok"
       THEN /\ report' = "transfer succeeded"
            /\ pc' = "post_balance_sender"
            /\ UNCHANGED exit
       ELSE /\ report' = "transfer failed"
            /\ MainReturns("ok")
    /\ UNCHANGED <<inputs, locals, calls, submit, result>>

\* main, lines 304-312: balances after the transfer.
PostBalance ==
    /\ pc \in {"post_balance_sender", "post_balance_receiver"}
    /\ \E reply \in {Failed, 0} :
          /\ Issue("get_balance", "main", reply)
          /\ IF reply = Failed THEN MainReturns("err")
             ELSE IF pc = "post_balance_sender"
                  THEN pc' = "post_balance_receiver" /\ UNCHANGED exit
                  ELSE MainReturns("ok")
    /\ UNCHANGED <<inputs, locals, submit, result, report>>

Next ==
    \/ LoadWallet
    \/ ValidateAddress
    \/ CheckAmount
    \/ MainBalance
    \/ ParseAmount
    \/ GetNonce
    \/ GetGasPrice
    \/ EstimateGas
    \/ GetBalance
    \/ SendTransaction
    \/ ReceiptPending
    \/ AwaitReceipt
    \/ MainReport
    \/ PostBalance

Spec == Init /\ [][Next]_vars

\* The endpoint eventually answers the wait of lines 195-197 with a receipt,
\* with "no receipt" or with an error.
SpecLive == Init /\ [][Next]_vars /\ WF_vars(AwaitReceipt)

\* ------------------------------------------- two transfers, one account
\* Replies used for the concurrent transfers.
ConcGasPriceReplies == {Failed, 1}
ConcEstimateReplies == {Failed, 1}
ConcBalanceReplies == {Failed, 0, U256Max}
ConcAmount == 1

InitConc ==
    /\ pc = "parse_amount"
    /\ to_input = "0x6F"
    /\ amount_input = [empty |-> FALSE, f64ok |-> TRUE, parsed |-> ConcAmount]
    /\ to_address = AddressFromStr("0x6F")
    /\ amount_wei = Unset
    /\ nonce = Unset
    /\ gas_price = Unset
    /\ gas_limit = Unset
    /\ estimated_fee = Unset
    /\ balance = Unset
    /\ total_cost = Unset
    /\ calls = <<>>
    /\ sent = NoTx
    /\ tx_hash = ""
    /\ receipt = "unset"
    /\ polls = 0
    /\ status_line = ""
    /\ result = NoResult
    /\ report = "none"
    /\ exit = "running"
    /\ flows = [f \in Flows |-> NoFlow]
    /\ chain = NoChain

single == <<pc, to_input, amount_input, locals, calls, submit, result,
            report, exit>>

\* Flow f ends with result r.
FlowReturns(f, r) ==
    flows' = [flows EXCEPT ![f].pc = "done", ![f].result = r]

\* Lines 134-137 in flow f: the count read is the account's current count.
FlowGetNonce(f) ==
    /\ flows[f].pc = "get_nonce"
    /\ \/ FlowReturns(f, Err(NonceContext))
       \/ flows' = [flows EXCEPT ![f].pc = "get_gas_price",
                                 ![f].nonce = chain.count]
    /\ UNCHANGED <<single, chain>>

\* Line 140 in flow f.
FlowGetGasPrice(f) ==
    /\ flows[f].pc = "get_gas_price"
    /\ \E reply \in ConcGasPriceReplies :
          LET p == get_gas_price_with_premium(reply)
          IN IF p = Failed THEN FlowReturns(f, Err(GasPriceContext))
             ELSE flows' = [flows EXCEPT ![f].pc = "estimate_gas",
                                         ![f].gas_price = p]
    /\ UNCHANGED <<single, chain>>

\* Lines 142-147 in flow f.
FlowEstimateGas(f) ==
    /\ flows[f].pc = "estimate_gas"
    /\ \E reply \in ConcEstimateReplies :
          flows' = [flows EXCEPT ![f].pc = "get_balance",
                                 ![f].gas_limit = estimate_gas_limit(reply)]
    /\ UNCHANGED <<single, chain>>

\* Lines 157-175 in flow f.
FlowGetBalance(f) ==
    /\ flows[f].pc = "get_balance"
    /\ \E reply \in ConcBalanceReplies :
          LET total == ConcAmount + flows[f].gas_price * flows[f].gas_limit
          IN CASE reply = Failed -> FlowReturns(f, Err(ProviderError))
               [] reply # Failed /\ Insufficient(reply, total) ->
                    FlowReturns(f, InsufficientFundsError(reply, total))
               [] OTHER -> flows' = [flows EXCEPT ![f].pc = "send"]
    /\ UNCHANGED <<single, chain>>

\* The endpoint's pool after it accepts transaction t: a pending transaction
\* of the same nonce is replaced.
PoolAccepting(t) == {u \in chain.pool : u[2] # t[2]} \cup {t}

\* Lines 177-191 in flow f: sign with the count read earlier and broadcast.
\* The endpoint rejects a nonce below the account's count and may reject
\* any transaction; otherwise the transaction enters the pool.
FlowSend(f) ==
    /\ flows[f].pc = "send"
    /\ LET tx == BuildTx(to_address, ConcAmount, flows[f].gas_price,
                         flows[f].gas_limit, flows[f].nonce)
       IN \/ /\ flows' = [flows EXCEPT ![f].pc = "done", ![f].sent = tx,
                                       ![f].result = Err(SendContext)]
             /\ UNCHANGED chain
          \/ /\ tx.nonce >= chain.count
             /\ flows' = [flows EXCEPT ![f].pc = "await_receipt",
                                       ![f].sent = tx]
             /\ chain' = [chain EXCEPT !.pool = PoolAccepting(<<f, tx.nonce>>)]
    /\ UNCHANGED single

\* The endpoint includes the pending transaction whose nonce is the
\* account's count; pending transactions of that nonce become stale.
Include ==
    /\ \E t \in chain.pool :
          /\ t[2] = chain.count
          /\ chain' = [count |-> chain.count + 1,
                       pool |-> {u \in chain.pool : u[2] > chain.count},
                       included |-> chain.included \cup {t}]
    /\ UNCHANGED <<single, flows>>

\* Lines 193-217 in flow f: the wait ends with the receipt of the included
\* transaction, with no receipt for a dropped one, or with an error.
FlowAwaitReceipt(f) ==
    /\ flows[f].pc = "await_receipt"
    /\ LET t == <<f, flows[f].sent.nonce>>
       IN \/ FlowReturns(f, Err(WaitContext))
          \/ /\ t \in chain.included \/ t \notin chain.pool
             /\ FlowReturns(f, Ok("h1"))
    /\ UNCHANGED <<single, chain>>

NextConc ==
    \/ \E f \in Flows : FlowGetNonce(f)
    \/ \E f \in Flows : FlowGetGasPrice(f)
    \/ \E f \in Flows : FlowEstimateGas(f)
    \/ \E f \in Flows : FlowGetBalance(f)
    \/ \E f \in Flows : FlowSend(f)
    \/ \E f \in Flows : FlowAwaitReceipt(f)
    \/ Include

SpecConc == InitConc /\ [][NextConc]_vars

\* ------------------------------------------------------------ observations
\* The endpoint's send operation was invoked.
SendInvoked == \E i \in DOMAIN calls : calls[i].op = "send_raw_transaction"
\* The request op issued by send_eth_transfer was answered with reply r.
Answered(op, r) ==
    \E i \in DOMAIN calls :
        calls[i] = Call(op, "send_eth_transfer", r)
\* The request op issued by send_eth_transfer was answered at all.
Asked(op) ==
    \E i \in DOMAIN calls :
        calls[i].op = op /\ calls[i].by = "send_eth_transfer"
\* The reply to the request op issued by send_eth_transfer.
ReplyTo(op) ==
    LET i == CHOOSE j \in DOMAIN calls :
                 calls[j].op = op /\ calls[j].by = "send_eth_transfer"
    IN calls[i].reply
\* send_eth_transfer has been entered.
TransferEntered ==
    \/ pc \in {"get_nonce", "get_gas_price", "estimate_gas", "get_balance",
               "send", "await_receipt", "report", "post_balance_sender",
               "post_balance_receiver"}
    \/ pc = "exited" /\ (report # "none" \/ exit = "panic")
\* The balance query of line 163 has been answered with a balance.
BalanceReturned == balance # Unset

\* C1: whenever the balance returned by the endpoint is below
\* value + gasPrice*gasLimit, the run ends with the insufficient-funds
\* error, the send operation is not invoked and no hash is returned.
C1_InsufficientAlwaysReported ==
    (BalanceReturned /\ balance < amount_wei + estimated_fee)
        => /\ result.kind = "Err"
           /\ result.ctx = InsufficientContext
           /\ ~SendInvoked
           /\ result.hash = ""

\* C2: whenever the nonce, gas-price and balance queries succeeded and the
\* balance is at least value + gasPrice*gasLimit, the run does not raise the
\* insufficient-funds error and its next step is the signed broadcast.
C2_SufficientProceeds ==
    (BalanceReturned /\ balance >= amount_wei + estimated_fee)
        => /\ result.ctx # InsufficientContext
           /\ exit # "panic"
           /\ total_cost = amount_wei + gas_price * gas_limit
           /\ pc = "send" \/ SendInvoked
C2_Witness ==
    /\ BalanceReturned
    /\ balance = amount_wei + estimated_fee
    /\ balance > 0
    /\ SendInvoked

\* C3: no run signs or broadcasts a transaction to the all-zero address: a
\* run given the zero address never invokes send, and every transaction
\* handed to send has a non-zero destination.
C3_ZeroAddressRejected ==
    /\ AddressFromStr(to_input) = ZeroAddress => ~SendInvoked /\ sent = NoTx
    /\ SendInvoked => sent.to # ZeroAddress
C3_Witness ==
    /\ AddressFromStr(to_input) = ZeroAddress
    /\ amount_input.parsed = 50
    /\ amount_input.f64ok
    /\ pc = "exited"
    /\ exit = "ok"
    /\ calls = <<>>

\* C4: if amount parsing, the nonce query, the gas-price query or the
\* balance query fails, send_eth_transfer returns an error and the send
\* operation is never invoked.
FailedBeforeSigning ==
    \/ TransferEntered /\ amount_input.parsed = Failed
    \/ Answered("get_transaction_count", Failed)
    \/ Answered("get_gas_price", Failed)
    \/ Answered("get_balance", Failed)
C4_FailureBeforeSigningAborts ==
    FailedBeforeSigning => result.kind = "Err" /\ ~SendInvoked /\ sent = NoTx
C4_Witness ==
    /\ Answered("get_gas_price", Failed)
    /\ result = Err(GasPriceContext)
    /\ pc = "exited"

\* C5: a receipt with status = failure yields an outcome the caller can
\* tell from the outcome of a receipt with status = success: it is not
\* returned as Ok and main does not report a successful transfer.
C5_FailedReceiptNotSuccess ==
    receipt \in {"status0", "nostatus"}
        => result.kind # "Ok" /\ report # "transfer succeeded"

\* C6: an accepted broadcast whose confirmation wait errors ends, without a
\* panic, in an error that differs from the error of a rejected broadcast.
C6_WaitErrorDistinct ==
    /\ receipt = "error"
          => /\ Answered("send_raw_transaction", 0)
             /\ result.kind = "Err"
             /\ result.ctx = WaitContext
             /\ result # Err(SendContext)
             /\ exit # "panic"
    /\ Answered("send_raw_transaction", Failed) => result = Err(SendContext)
C6_Witness ==
    /\ receipt = "error"
    /\ result.kind = "Err"
    /\ report = "transfer failed"
    /\ pc = "exited"

\* C7: the transaction handed to send carries the caller's destination, the
\* parsed value, the nonce, gas price and gas limit obtained from the
\* endpoint in this run (those the balance check used) and chain id 421614.
C7_TxCarriesRunValues ==
    SendInvoked =>
        /\ sent.to = AddressFromStr(to_input)
        /\ sent.value = amount_input.parsed
        /\ sent.nonce = ReplyTo("get_transaction_count")
        /\ sent.gas_price = PremiumOf(ReplyTo("get_gas_price"))
        /\ sent.gas = BufferOf(EstimateOrFallback(ReplyTo("estimate_gas")))
        /\ sent.chain_id = 421614
        /\ total_cost = sent.value + sent.gas_price * sent.gas
        /\ ReplyTo("get_balance") >= total_cost
C7_Witness ==
    /\ SendInvoked
    /\ sent.nonce = 7
    /\ sent.value = 50
    /\ sent.gas_price = 100
    /\ sent.gas = 10
    /\ sent.to = 241

\* C8: estimate_gas_limit returns floor(e*120/100) for every simulated
\* estimate e and 25200 when the simulation fails.
C8_EstimateBuffered ==
    Asked("estimate_gas") =>
        gas_limit = IF ReplyTo("estimate_gas") = Failed THEN 25200
                    ELSE (ReplyTo("estimate_gas") * 120) \div 100

\* C9: get_gas_price_with_premium returns floor(p*110/100) for every base
\* price p, and an error without a price when the query fails.
C9_PremiumExact ==
    Asked("get_gas_price") =>
        IF ReplyTo("get_gas_price") = Failed
        THEN gas_price = Unset /\ result = Err(GasPriceContext)
        ELSE gas_price = (ReplyTo("get_gas_price") * 110) \div 100

\* C10: the insufficient-funds error reports the endpoint's balance, the
\* total cost value + gasPrice*gasLimit and their difference, which is
\* positive.
C10_ShortfallReported ==
    result.ctx = InsufficientContext =>
        /\ result.detail[1] = format_units(ReplyTo("get_balance"))
        /\ UnitsValue(result.detail[1]) = ReplyTo("get_balance")
        /\ UnitsValue(result.detail[2]) = amount_wei + gas_price * gas_limit
        /\ UnitsValue(result.detail[3]) =
               UnitsValue(result.detail[2]) - UnitsValue(result.detail[1])
        /\ UnitsValue(result.detail[3]) > 0
C10_Witness ==
    /\ result.ctx = InsufficientContext
    /\ ReplyTo("get_balance") = 100
    /\ UnitsValue(result.detail[2]) = 150
    /\ UnitsValue(result.detail[3]) = 50

\* The position in the request log of the request op of send_eth_transfer.
IndexOf(op) ==
    CHOOSE j \in DOMAIN calls :
        calls[j].op = op /\ calls[j].by = "send_eth_transfer"
\* The number of requests op issued by send_eth_transfer.
Issued(op) ==
    Cardinality({i \in DOMAIN calls :
                    calls[i].op = op /\ calls[i].by = "send_eth_transfer"})

\* C11: the stages occur in the order gas price, gas limit, nonce, balance,
\* broadcast: the nonce query never precedes the gas-price and gas-limit
\* queries and is the last query before the balance check.
C11_StageOrder ==
    /\ Asked("get_transaction_count")
          => /\ Asked("get_gas_price")
             /\ Asked("estimate_gas")
             /\ IndexOf("get_gas_price") < IndexOf("estimate_gas")
             /\ IndexOf("estimate_gas") < IndexOf("get_transaction_count")
    /\ Asked("get_balance")
          => IndexOf("get_balance") = IndexOf("get_transaction_count") + 1
    /\ SendInvoked
          => IndexOf("get_balance") < IndexOf("send_raw_transaction")

\* C12: with a malformed address, a zero address or a malformed amount
\* string, no endpoint operation is ever invoked.
InvalidInput ==
    \/ AddressFromStr(to_input) = Failed
    \/ AddressFromStr(to_input) = ZeroAddress
    \/ amount_input.empty
    \/ amount_input.parsed = Failed
C12_ValidationBeforeNetwork == InvalidInput => calls = <<>>

\* C13: within one run of send_eth_transfer the send operation and each of
\* the nonce, gas-price, gas-estimate and balance queries is issued at most
\* once; a failure at or after the broadcast is followed by no second send.
C13_NoRetry ==
    \A op \in {"send_raw_transaction", "get_transaction_count",
               "get_gas_price", "estimate_gas", "get_balance"} :
        Issued(op) <= 1
C13_Witness ==
    /\ Answered("send_raw_transaction", Failed)
    /\ Issued("send_raw_transaction") = 1
    /\ result = Err(SendContext)
    /\ pc = "exited"

\* The stage an error context names ("unknown" when it names none).
StageOf(ctx) ==
    CASE ctx = NonceContext -> "get_transaction_count"
      [] ctx = GasPriceContext -> "get_gas_price"
      [] ctx = SendContext -> "send_raw_transaction"
      [] ctx = WaitContext -> "get_transaction_receipt"
      [] OTHER -> "unknown"

\* C14: a failure of the nonce query, the gas-price query, the balance
\* query, the broadcast or the confirmation wait yields an error whose
\* context identifies that stage.
C14_ErrorNamesStage ==
    \A op \in {"get_transaction_count", "get_gas_price", "get_balance",
               "send_raw_transaction", "get_transaction_receipt"} :
        Answered(op, Failed)
            => result.kind = "Err" /\ StageOf(result.ctx) = op

\* C17: the balance is never compared with a wrapped value: when
\* gasPrice*110, gasLimit*120, gasPrice*gasLimit or value + fee exceeds the
\* U256 range the run aborts without invoking send, and every broadcast
\* follows a comparison with the exact total cost.
C17_NoWrappedComparison ==
    /\ (Asked("get_gas_price") /\ ReplyTo("get_gas_price") # Failed
          /\ ReplyTo("get_gas_price") * 110 > U256Max)
          => exit = "panic" /\ ~SendInvoked
    /\ (Asked("estimate_gas")
          /\ EstimateOrFallback(ReplyTo("estimate_gas")) * 120 > U256Max)
          => exit = "panic" /\ ~SendInvoked
    /\ (gas_limit # Unset /\ gas_price * gas_limit > U256Max)
          => exit = "panic" /\ ~SendInvoked
    /\ (BalanceReturned /\ amount_wei + estimated_fee > U256Max)
          => exit = "panic" /\ ~SendInvoked
    /\ SendInvoked
          => /\ total_cost = amount_wei + gas_price * gas_limit
             /\ total_cost <= U256Max
             /\ balance >= total_cost
C17_Witness ==
    /\ gas_limit # Unset
    /\ gas_price * gas_limit > U256Max
    /\ exit = "panic"
    /\ ~Asked("get_balance")
    /\ ~SendInvoked

\* C18: every broadcast transaction satisfies value + gasPrice*gasLimit <=
\* the balance observed at check time, so the balance less the value and
\* the fee of any gas use up to the limit is non-negative.
C18_BroadcastWithinBalance ==
    SendInvoked =>
        /\ sent.value + sent.gas_price * sent.gas <= ReplyTo("get_balance")
        /\ \A used \in {0, sent.gas \div 2, sent.gas} :
              ReplyTo("get_balance") - sent.value - sent.gas_price * used >= 0
C18_Witness ==
    /\ SendInvoked
    /\ sent.value = 50
    /\ sent.gas_price * sent.gas = 100
    /\ ReplyTo("get_balance") = 150

C15_SameNonceRace ==
    /\ \A f \in Flows :
          flows[f].sent # NoTx
             => /\ flows[f].nonce # Unset
                /\ flows[f].sent.nonce = flows[f].nonce
                /\ flows[f].sent.nonce < chain.count
                      => (<<f, flows[f].sent.nonce>> \in chain.included
                          \/ <<f, flows[f].sent.nonce>> \notin chain.pool)
    /\ \A t \in chain.included : \A u \in chain.included :
          t[2] = u[2] => t = u
\* Both flows read the same count, both invoked send with that nonce, one
\* transaction was included and the other was not.
C15_Witness ==
    /\ flows[1].sent # NoTx
    /\ flows[2].sent # NoTx
    /\ flows[1].nonce = flows[2].nonce
    /\ flows[1].sent.nonce = flows[2].sent.nonce
    /\ Cardinality(chain.included) = 1
    /\ flows[1].pc = "done"
    /\ flows[2].pc = "done"
====
